---- MODULE Spec2Model ----
(***************************************************************************)
(* Model of Round-3/backend/app.py: the upload ingestor (upload_pdf), the  *)
(* insight endpoint (get_insights) and the podcast endpoint                *)
(* (generate_podcast).  Text is modelled as sequences of one-character     *)
(* strings, and the string operations of the handlers (strip, split, find, *)
(* slicing, json.loads) are computed character by character.               *)
(***************************************************************************)
EXTENDS Integers, Sequences, FiniteSets, TLC

VARIABLES
    DEFAULT_MODEL,   \* module-level model name chosen at start-up, or NoModel
    up,              \* upload_pdf: the request-scoped state of each uploader
    dir,             \* UPLOAD_DIR: file name -> inode
    inodes,          \* inode -> file content (run-length list of extents)
    gi,              \* get_insights: request-scoped state
    gp,              \* generate_podcast: request-scoped state
    sn               \* successive results of the filename sanitization

vars == <<DEFAULT_MODEL, up, dir, inodes, gi, gp, sn>>

----------------------------------------------------------------------------
(* Characters and Python string operations                                 *)

LowerLetters ==
    <<"a", "b", "c", "d", "e", "f", "g", "h", "i", "j", "k", "l", "m",
      "n", "o", "p", "q", "r", "s", "t", "u", "v", "w", "x", "y", "z">>

UpperLetters ==
    <<"A", "B", "C", "D", "E", "F", "G", "H", "I", "J", "K", "L", "M",
      "N", "O", "P", "Q", "R", "S", "T", "U", "V", "W", "X", "Y", "Z">>

Digits == <<"0", "1", "2", "3", "4", "5", "6", "7", "8", "9">>

\* the character U+0060, which a TLA+ string cannot hold
Backquote == "<backquote>"

Range(f) == {f[i] : i \in DOMAIN f}

\* str.isalnum() of one character
IsAlnum(c) == c \in Range(LowerLetters) \cup Range(UpperLetters) \cup Range(Digits)

\* the characters str.strip() and str.rstrip() remove
Whitespace == {" ", "\n", "\t", "\r"}

\* str.lower() of one character
LowerChar(c) ==
    IF c \in Range(UpperLetters)
    THEN LowerLetters[CHOOSE i \in 1..26 : UpperLetters[i] = c]
    ELSE c

\* str.lower()
Lower(s) == [i \in 1..Len(s) |-> LowerChar(s[i])]

\* the least and the greatest element of a non-empty set of integers
MinOf(S) == CHOOSE x \in S : \A y \in S : x <= y
MaxOf(S) == CHOOSE x \in S : \A y \in S : y <= x

\* s[a:b] with 0-based Python bounds 0 <= a, b
Slice(s, a, b) ==
    LET hi == IF b > Len(s) THEN Len(s) ELSE b
    IN  IF a >= hi THEN <<>> ELSE SubSeq(s, a + 1, hi)

\* number of leading characters of s that lie in cs
LeadIn(s, cs) ==
    CHOOSE k \in 0..Len(s) :
        /\ \A j \in 1..k : s[j] \in cs
        /\ k < Len(s) => s[k + 1] \notin cs

\* number of trailing characters of s that lie in cs
TrailIn(s, cs) ==
    CHOOSE k \in 0..Len(s) :
        /\ \A j \in 1..k : s[Len(s) + 1 - j] \in cs
        /\ k < Len(s) => s[Len(s) - k] \notin cs

\* str.strip(chars)
StripChars(s, cs) ==
    LET a == LeadIn(s, cs)
    IN  IF a = Len(s) THEN <<>> ELSE SubSeq(s, a + 1, Len(s) - TrailIn(s, cs))

\* str.strip()
Strip(s) == StripChars(s, Whitespace)

\* str.rstrip()
RStrip(s) == SubSeq(s, 1, Len(s) - TrailIn(s, Whitespace))

\* s[i:].startswith(p), i 0-based
MatchAt(s, p, i) ==
    /\ i + Len(p) <= Len(s)
    /\ \A k \in 1..Len(p) : s[i + k] = p[k]

StartsWith(s, p) == MatchAt(s, p, 0)

EndsWith(s, p) == Len(p) <= Len(s) /\ MatchAt(s, p, Len(s) - Len(p))

\* p in s
Contains(s, p) == \E i \in 0..(Len(s) - Len(p)) : MatchAt(s, p, i)

\* the 0-based positions of s at which p occurs, from position from on
Occurrences(s, p, from) == {i \in from..(Len(s) - Len(p)) : MatchAt(s, p, i)}

\* s.find(p, from): 0-based position of the first occurrence, -1 if none
Find(s, p, from) ==
    LET occ == Occurrences(s, p, from)
    IN  IF occ = {} THEN -1 ELSE MinOf(occ)

\* s.rfind(p)
RFind(s, p) ==
    LET occ == Occurrences(s, p, 0)
    IN  IF occ = {} THEN -1 ELSE MaxOf(occ)

\* s.split(sep): the parts between the non-overlapping occurrences of sep,
\* scanned left to right
RECURSIVE SplitFrom(_, _, _)
SplitFrom(s, sep, from) ==
    LET k == Find(s, sep, from)
    IN  IF k = -1
        THEN <<Slice(s, from, Len(s))>>
        ELSE <<Slice(s, from, k)>> \o SplitFrom(s, sep, k + Len(sep))

Split(s, sep) == SplitFrom(s, sep, 0)

\* n copies of the character c
Rep(c, n) == [i \in 1..n |-> c]

----------------------------------------------------------------------------
(* upload_pdf: filename check and sanitization                             *)

S_pdf == <<".", "p", "d", "f">>

\* app.py:79  not file.filename or not file.filename.lower().endswith(".pdf")
FilenameRejected(filename) ==
    filename = <<>> \/ ~EndsWith(Lower(filename), S_pdf)

\* app.py:83  the characters the sanitization keeps
KeepChar(c) == IsAlnum(c) \/ c \in {".", "_", "-"}

SelectSeqKeep(s) == SelectSeq(s, KeepChar)

\* a sanitization that appends the extension without looking at the end
MutSanitize(filename) == RStrip(SelectSeqKeep(filename)) \o S_pdf

\* app.py:83-85  safe_filename
Sanitize(filename) ==
    LET kept == RStrip(SelectSeqKeep(filename))
    IN  IF EndsWith(kept, S_pdf) THEN kept ELSE kept \o S_pdf

----------------------------------------------------------------------------
(* Start-up: the choice of DEFAULT_MODEL (app.py:45-68)                    *)

NoModel == "None"

PreferredModel == "models/gemini-pro"

AltModels == <<"models/gemini-1.5-flash", "models/gemini-1.5-pro", "models/text-bison-001">>

\* app.py:53-61  available is the list genai.list_models() returned
SelectModel(available) ==
    IF PreferredModel \in Range(available) THEN PreferredModel
    ELSE IF \E i \in 1..Len(AltModels) : AltModels[i] \in Range(available)
    THEN AltModels[MinOf({i \in 1..Len(AltModels) : AltModels[i] \in Range(available)})]
    ELSE IF available /= <<>> THEN available[1]
    ELSE NoModel

\* lists of available models the start-up may see
AvailableLists ==
    { <<>>, <<"models/gemini-1.5-pro", "models/gemini-1.5-flash">>,
      <<"models/embedding-001", "models/gemini-pro">> }

\* app.py:45-68  DEFAULT_MODEL after start-up; list_models() raising leaves None
StartupModels == {SelectModel(a) : a \in AvailableLists} \cup {NoModel}

----------------------------------------------------------------------------
(* upload_pdf: storage (UPLOAD_DIR) and the chunked write loop             *)

Uploaders == {1, 2}

\* app.py:92  await file.read(8192)
ChunkSize == 8192

\* app.py:94  50 * 1024 * 1024
MaxUploadBytes == 50 * 1024 * 1024

\* A file's content is a list of extents [w |-> writer, n |-> bytes]; the byte
\* at position x of an extent of writer w is byte x of w's stream; writer 0
\* marks a hole of zero bytes.
RECURSIVE FileSize(_)
FileSize(data) == IF data = <<>> THEN 0 ELSE Head(data).n + FileSize(Tail(data))

RECURSIVE TakeBytes(_, _)
TakeBytes(data, k) ==
    IF k <= 0 \/ data = <<>> THEN <<>>
    ELSE IF Head(data).n <= k
    THEN <<Head(data)>> \o TakeBytes(Tail(data), k - Head(data).n)
    ELSE <<[w |-> Head(data).w, n |-> k]>>

RECURSIVE DropBytes(_, _)
DropBytes(data, k) ==
    IF data = <<>> THEN <<>>
    ELSE IF k <= 0 THEN data
    ELSE IF Head(data).n <= k THEN DropBytes(Tail(data), k - Head(data).n)
    ELSE <<[w |-> Head(data).w, n |-> Head(data).n - k]>> \o Tail(data)

RECURSIVE MergeExtents(_)
MergeExtents(data) ==
    IF Len(data) < 2 THEN data
    ELSE IF data[1].w = data[2].w
    THEN MergeExtents(<<[w |-> data[1].w, n |-> data[1].n + data[2].n]>> \o Tail(Tail(data)))
    ELSE <<data[1]>> \o MergeExtents(Tail(data))

\* write(2) of k bytes of writer w at offset off
WriteAt(data, off, w, k) ==
    LET size   == FileSize(data)
        padded == IF off > size THEN data \o <<[w |-> 0, n |-> off - size]>> ELSE data
    IN  MergeExtents(TakeBytes(padded, off) \o <<[w |-> w, n |-> k]>>
                     \o DropBytes(padded, off + k))

\* the inodes some directory entry or open descriptor refers to
LiveInodes(d, u) == (Range(d) \cup {u[p].fd : p \in Uploaders}) \ {0}

FreshInode(d, u) ==
    MinOf({i \in 1..(Cardinality(LiveInodes(d, u)) + 1) : i \notin LiveInodes(d, u)})

\* keep only the content of live inodes
Collect(ino, d, u) == [i \in LiveInodes(d, u) |-> ino[i]]

UpIdle ==
    [pc |-> "idle", filename |-> <<>>, safe_filename |-> <<>>, total |-> 0, left |-> 0,
     file_size |-> 0, fd |-> 0, off |-> 0, status |-> 0, body |-> "none"]

\* a size check that also rejects a stream of exactly the limit
MutTooLarge(file_size) == file_size >= MaxUploadBytes

\* app.py:94  if file_size > 50 * 1024 * 1024
TooLarge(file_size) == file_size > MaxUploadBytes

\* app.py:95  save_path.unlink(missing_ok=True)
Unlink(d, name) == [n \in DOMAIN d \ {name} |-> d[n]]

\* app.py:78-91  the request arrives with a filename and a stream of size bytes;
\* the extension check, the sanitization and save_path.open("wb"), up to the
\* first await of file.read
UploadStart(p, names, sizes) ==
    /\ up[p].pc = "idle"
    /\ \E filename \in names, size \in sizes :
        IF FilenameRejected(filename)
        THEN /\ up' = [up EXCEPT ![p] = [UpIdle EXCEPT !.pc = "done", !.filename = filename,
                                            !.total = size, !.left = size,
                                            !.status = 400, !.body = "detail"]]
             /\ UNCHANGED <<dir, inodes>>
        ELSE LET safe == Sanitize(filename)
                 ino  == IF safe \in DOMAIN dir THEN dir[safe] ELSE FreshInode(dir, up)
             IN  /\ up' = [up EXCEPT ![p] = [UpIdle EXCEPT !.pc = "read", !.filename = filename,
                                                !.safe_filename = safe, !.total = size,
                                                !.left = size, !.fd = ino]]
                 /\ dir' = [n \in DOMAIN dir \cup {safe} |-> IF n = safe THEN ino ELSE dir[n]]
                 /\ inodes' = [i \in DOMAIN inodes \cup {ino} |->
                                  IF i = ino THEN <<>> ELSE inodes[i]]
    /\ UNCHANGED <<DEFAULT_MODEL, gi, gp, sn>>

\* app.py:92-97  file.read returned a non-empty chunk: count it, then either
\* unlink the path and raise 413 (the with block closes the file) or write it
UploadChunk(p) ==
    /\ up[p].pc = "read"
    /\ up[p].left > 0
    /\ LET chunk == IF up[p].left < ChunkSize THEN up[p].left ELSE ChunkSize
           size  == up[p].file_size + chunk
       IN  IF TooLarge(size)
           THEN LET d == Unlink(dir, up[p].safe_filename)
                    u == [up EXCEPT ![p].pc = "done", ![p].left = @ - chunk,
                                    ![p].file_size = size, ![p].fd = 0,
                                    ![p].status = 413, ![p].body = "detail"]
                IN  /\ up' = u
                    /\ dir' = d
                    /\ inodes' = Collect(inodes, d, u)
           ELSE /\ up' = [up EXCEPT ![p].left = @ - chunk, ![p].file_size = size,
                                    ![p].off = @ + chunk]
                /\ inodes' = [inodes EXCEPT ![up[p].fd] = WriteAt(@, up[p].off, p, chunk)]
                /\ UNCHANGED dir
    /\ UNCHANGED <<DEFAULT_MODEL, gi, gp, sn>>

\* what process_pdf (extraction.py, an external collaborator) may do
PdfOutcomes == {"outline", "error", "raise"}

\* app.py:92, 99-130  file.read returned the empty chunk: the file is closed,
\* process_pdf runs and the response is built
UploadFinish(p) ==
    /\ up[p].pc = "read"
    /\ up[p].left = 0
    /\ \E outcome \in PdfOutcomes :
        LET u == [up EXCEPT ![p].pc = "done", ![p].fd = 0,
                            ![p].status = IF outcome = "outline" THEN 200 ELSE 500,
                            ![p].body = CASE outcome = "outline" -> "record"
                                          [] outcome = "error" -> "error"
                                          [] OTHER -> "detail"]
        IN  /\ up' = u
            /\ inodes' = Collect(inodes, dir, u)
    /\ UNCHANGED <<DEFAULT_MODEL, dir, gi, gp, sn>>

\* the response is sent and the request-scoped state is discarded
UploadReturn(p) ==
    /\ up[p].pc = "done"
    /\ up' = [up EXCEPT ![p] = UpIdle]
    /\ UNCHANGED <<DEFAULT_MODEL, dir, inodes, gi, gp, sn>>

----------------------------------------------------------------------------
(* json.loads on a character sequence.  Positions are 0-based as in the    *)
(* decoder.  Values: [t, s, a] with t the type, s the characters of a      *)
(* string, number or literal, a the elements of an array or the            *)
(* [k |-> key, v |-> value] pairs of an object in source order.            *)

JStr(s) == [t |-> "str", s |-> s, a |-> <<>>]
JNum(s) == [t |-> "num", s |-> s, a |-> <<>>]
JLit(s) == [t |-> "lit", s |-> s, a |-> <<>>]
JArr(a) == [t |-> "arr", s |-> <<>>, a |-> a]
JObj(a) == [t |-> "obj", s |-> <<>>, a |-> a]
JNone == [t |-> "none", s |-> <<>>, a |-> <<>>]

\* dict: key in d, d[key] (the last pair of a repeated key wins), and d[key] = v
DictHas(d, key) == \E i \in 1..Len(d.a) : d.a[i].k = key

DictGet(d, key) == d.a[MaxOf({i \in 1..Len(d.a) : d.a[i].k = key})].v

DictSet(d, key, v) ==
    IF DictHas(d, key)
    THEN JObj([i \in 1..Len(d.a) |-> IF d.a[i].k = key THEN [k |-> key, v |-> v] ELSE d.a[i]])
    ELSE JObj(Append(d.a, [k |-> key, v |-> v]))

\* s[i:i+1], the empty string past the end
At(s, i) == IF i < Len(s) THEN s[i + 1] ELSE ""

JsonWs == {" ", "\t", "\n", "\r"}

\* the characters below 0x20 among the modelled ones
ControlChars == {"\n", "\t", "\r"}

\* the position after the run of characters of cs that starts at i
RunEnd(s, i, cs) ==
    CHOOSE e \in i..Len(s) :
        /\ \A j \in i..(e - 1) : s[j + 1] \in cs
        /\ e < Len(s) => s[e + 1] \notin cs

SkipWs(s, i) == IF i >= Len(s) THEN i ELSE RunEnd(s, i, JsonWs)

ParseFail == [ok |-> FALSE, v |-> JNone, end |-> 0]

ParseOk(v, end) == [ok |-> TRUE, v |-> v, end |-> end]

\* py_scanstring from the position after the opening quote, strict mode: the
\* string ends at the first quote; a control character before it is an error.
\* No modelled text holds a backslash, so the escape branch is left out.
ScanString(s, i) ==
    LET stops == {j \in i..(Len(s) - 1) : s[j + 1] \in ControlChars \cup {"\"", "\\"}}
    IN  IF stops = {} THEN ParseFail
        ELSE LET j == MinOf(stops)
             IN  IF s[j + 1] = "\"" THEN ParseOk(JStr(Slice(s, i, j)), j + 1)
                 ELSE ParseFail

IsDigit(c) == c \in Range(Digits)

\* NUMBER_RE.match(s, i): (-?(?:0|[1-9]\d*))(\.\d+)?([eE][-+]?\d+)? ;
\* the end of the match, -1 if there is none
ScanNumber(s, i) ==
    LET j      == IF At(s, i) = "-" THEN i + 1 ELSE i
        intEnd == IF At(s, j) = "0" THEN j + 1 ELSE RunEnd(s, j, Range(Digits))
        frcEnd == IF At(s, intEnd) = "." /\ IsDigit(At(s, intEnd + 1))
                  THEN RunEnd(s, intEnd + 1, Range(Digits)) ELSE intEnd
        k      == IF At(s, frcEnd + 1) \in {"+", "-"} THEN frcEnd + 2 ELSE frcEnd + 1
        expEnd == IF At(s, frcEnd) \in {"e", "E"} /\ IsDigit(At(s, k))
                  THEN RunEnd(s, k, Range(Digits)) ELSE frcEnd
    IN  IF IsDigit(At(s, j)) THEN expEnd ELSE -1

S_null == <<"n", "u", "l", "l">>
S_true == <<"t", "r", "u", "e">>
S_false == <<"f", "a", "l", "s", "e">>
S_NaN == <<"N", "a", "N">>
S_Infinity == <<"I", "n", "f", "i", "n", "i", "t", "y">>
S_NegInfinity == <<"-", "I", "n", "f", "i", "n", "i", "t", "y">>

RECURSIVE ParseValue(_, _)
RECURSIVE ParseMembers(_, _, _)
RECURSIVE ParseElements(_, _, _)

\* JSONObject from the position after "{"
ParseObject(s, i) ==
    LET j == SkipWs(s, i)
    IN  IF At(s, j) = "}" THEN ParseOk(JObj(<<>>), j + 1)
        ELSE IF At(s, j) = "\"" THEN ParseMembers(s, j, <<>>)
        ELSE ParseFail

\* one "key": value member at the quote at position j, then "," or "}"
ParseMembers(s, j, acc) ==
    LET key == ScanString(s, j + 1)
    IN  IF ~key.ok THEN ParseFail
        ELSE LET c == SkipWs(s, key.end)
             IN  IF At(s, c) /= ":" THEN ParseFail
                 ELSE LET val == ParseValue(s, SkipWs(s, c + 1))
                      IN  IF ~val.ok THEN ParseFail
                          ELSE LET e     == SkipWs(s, val.end)
                                   pairs == Append(acc, [k |-> key.v.s, v |-> val.v])
                                   n     == SkipWs(s, e + 1)
                               IN  IF At(s, e) = "}" THEN ParseOk(JObj(pairs), e + 1)
                                   ELSE IF At(s, e) = "," /\ At(s, n) = "\""
                                   THEN ParseMembers(s, n, pairs)
                                   ELSE ParseFail

\* JSONArray from the position after "["
ParseArray(s, i) ==
    LET j == SkipWs(s, i)
    IN  IF At(s, j) = "]" THEN ParseOk(JArr(<<>>), j + 1)
        ELSE ParseElements(s, j, <<>>)

\* one element at position j, then "," or "]"
ParseElements(s, j, acc) ==
    LET val == ParseValue(s, j)
    IN  IF ~val.ok THEN ParseFail
        ELSE LET e == SkipWs(s, val.end)
             IN  IF At(s, e) = "]" THEN ParseOk(JArr(Append(acc, val.v)), e + 1)
                 ELSE IF At(s, e) = ","
                 THEN ParseElements(s, SkipWs(s, e + 1), Append(acc, val.v))
                 ELSE ParseFail

\* scan_once(s, i)
ParseValue(s, i) ==
    LET c == At(s, i)
        n == ScanNumber(s, i)
    IN  IF c = "\"" THEN ScanString(s, i + 1)
        ELSE IF c = "{" THEN ParseObject(s, i + 1)
        ELSE IF c = "[" THEN ParseArray(s, i + 1)
        ELSE IF MatchAt(s, S_null, i) THEN ParseOk(JLit(S_null), i + 4)
        ELSE IF MatchAt(s, S_true, i) THEN ParseOk(JLit(S_true), i + 4)
        ELSE IF MatchAt(s, S_false, i) THEN ParseOk(JLit(S_false), i + 5)
        ELSE IF n /= -1 THEN ParseOk(JNum(Slice(s, i, n)), n)
        ELSE IF MatchAt(s, S_NaN, i) THEN ParseOk(JLit(S_NaN), i + 3)
        ELSE IF MatchAt(s, S_Infinity, i) THEN ParseOk(JLit(S_Infinity), i + 8)
        ELSE IF MatchAt(s, S_NegInfinity, i) THEN ParseOk(JLit(S_NegInfinity), i + 9)
        ELSE ParseFail

\* json.loads(s): the value, or ok = FALSE for JSONDecodeError (a value must
\* be followed by nothing but whitespace)
JsonLoads(s) ==
    LET r == ParseValue(s, SkipWs(s, 0))
    IN  IF r.ok /\ SkipWs(s, r.end) = Len(s) THEN r ELSE ParseFail

----------------------------------------------------------------------------
(* get_insights                                                            *)

S_insight == <<"i", "n", "s", "i", "g", "h", "t">>

S_recommendation == <<"r", "e", "c", "o", "m", "m", "e", "n", "d", "a", "t", "i", "o", "n">>

S_fence == <<Backquote, Backquote, Backquote>>

S_json == <<"j", "s", "o", "n">>

S_ellipsis == <<".", ".", ".">>

\* app.py:240  the indicators of an insight line
K_insight_1 == <<"i", "n", "s", "i", "g", "h", "t", ":">>

K_insight_2 == <<"\"", "i", "n", "s", "i", "g", "h", "t", "\"", ":">>

K_insight_3 == <<"a", "n", "a", "l", "y", "s", "i", "s", ":">>

K_insight_4 == <<"s", "u", "m", "m", "a", "r", "y", ":">>

InsightIndicators == {K_insight_1, K_insight_2, K_insight_3, K_insight_4}

\* app.py:250  the indicators of a recommendation line
K_recommendation_1 ==
    <<"r", "e", "c", "o", "m", "m", "e", "n", "d", "a", "t", "i", "o", "n", ":">>

K_recommendation_2 ==
    <<"\"", "r", "e", "c", "o", "m", "m", "e", "n", "d", "a", "t", "i", "o", "n", "\"", ":">>

K_recommendation_3 == <<"a", "c", "t", "i", "o", "n", ":">>

K_recommendation_4 == <<"s", "u", "g", "g", "e", "s", "t", ":">>

RecommendationIndicators ==
    {K_recommendation_1, K_recommendation_2, K_recommendation_3, K_recommendation_4}

\* app.py:290
S_default_insight ==
    <<"U", "n", "a", "b", "l", "e", " ", "t", "o", " ", "e", "x", "t", "r", "a", "c", "t", " ",
      "c", "l", "e", "a", "r", " ", "i", "n", "s", "i", "g", "h", "t", "s", " ", "f", "r", "o",
      "m", " ", "t", "h", "e", " ", "s", "e", "l", "e", "c", "t", "e", "d", " ", "t", "e", "x",
      "t", ".">>

\* app.py:292
S_default_recommendation ==
    <<"P", "l", "e", "a", "s", "e", " ", "r", "e", "v", "i", "e", "w", " ", "t", "h", "e", " ",
      "c", "o", "n", "t", "e", "n", "t", " ", "a", "n", "d", " ", "c", "o", "n", "s", "i", "d",
      "e", "r", " ", "i", "t", "s", " ", "p", "r", "a", "c", "t", "i", "c", "a", "l", " ", "a",
      "p", "p", "l", "i", "c", "a", "t", "i", "o", "n", "s", ".">>

\* app.py:276
S_review_recommendation ==
    <<"P", "l", "e", "a", "s", "e", " ", "r", "e", "v", "i", "e", "w", " ", "t", "h", "e", " ",
      "c", "o", "n", "t", "e", "n", "t", " ", "f", "o", "r", " ", "a", "c", "t", "i", "o", "n",
      "a", "b", "l", "e", " ", "s", "t", "e", "p", "s", ".">>

\* app.py:279
S_consider_recommendation ==
    <<"C", "o", "n", "s", "i", "d", "e", "r", " ", "t", "h", "e", " ", "i", "m", "p", "l", "i",
      "c", "a", "t", "i", "o", "n", "s", " ", "o", "f", " ", "t", "h", "i", "s", " ", "c", "o",
      "n", "t", "e", "n", "t", ".">>

\* app.py:317
S_error_insight ==
    <<"U", "n", "a", "b", "l", "e", " ", "t", "o", " ", "a", "n", "a", "l", "y", "z", "e", " ",
      "t", "h", "e", " ", "s", "e", "l", "e", "c", "t", "e", "d", " ", "t", "e", "x", "t", " ",
      "d", "u", "e", " ", "t", "o", " ", "a", " ", "p", "r", "o", "c", "e", "s", "s", "i", "n",
      "g", " ", "e", "r", "r", "o", "r", ".">>

\* app.py:318
S_error_recommendation ==
    <<"P", "l", "e", "a", "s", "e", " ", "t", "r", "y", " ", "s", "e", "l", "e", "c", "t", "i",
      "n", "g", " ", "a", " ", "d", "i", "f", "f", "e", "r", "e", "n", "t", " ", "t", "e", "x",
      "t", " ", "s", "e", "g", "m", "e", "n", "t", " ", "o", "r", " ", "r", "e", "f", "r", "e",
      "s", "h", " ", "t", "h", "e", " ", "p", "a", "g", "e", ".">>

\* app.py:295  len(insight) > 500
InsightCap == 500

\* app.py:297  len(recommendation) > 300
RecommendationCap == 300

\* app.py:274  len(response_text) > 100
WholeResponseThreshold == 100

\* app.py:275  response_text[:300]
WholeResponseLen == 300

\* app.py:205-210  remove a markdown code block that opens the text
FenceStrip(response_text) ==
    IF StartsWith(response_text, S_fence)
    THEN LET parts == Split(response_text, S_fence)
         IN  IF Len(parts) >= 2
             THEN IF StartsWith(parts[2], S_json)
                  THEN Slice(parts[2], 4, Len(parts[2]))
                  ELSE parts[2]
             ELSE response_text
    ELSE response_text

\* a slice that stops before the last closing brace
MutBraceSlice(response_text) ==
    LET t     == Strip(response_text)
        start == Find(t, <<"{">>, 0)
        end   == RFind(t, <<"}">>)
    IN  IF ~StartsWith(t, <<"{">>) /\ start /= -1 /\ end > start
        THEN Slice(t, start, end)
        ELSE t

\* app.py:213-219  strip, then cut from the first "{" to the last "}"
BraceSlice(response_text) ==
    LET t     == Strip(response_text)
        start == Find(t, <<"{">>, 0)
        end   == RFind(t, <<"}">>) + 1
    IN  IF ~StartsWith(t, <<"{">>) /\ start /= -1 /\ end > start
        THEN Slice(t, start, end)
        ELSE t

\* .strip().strip('"').strip(',')
TrimValue(s) == StripChars(StripChars(Strip(s), {"\""}), {","})

\* app.py:228-232  the scan's variables before the first line
ScanStart ==
    [insight |-> <<>>, recommendation |-> <<>>, current_field |-> "None",
     current_value |-> <<>>]

\* app.py:241-242, 251-252, 268-269  store the accumulated value
Flush(st) ==
    IF st.current_field /= "None" /\ st.current_value /= <<>>
    THEN [st EXCEPT ![st.current_field] = Strip(st.current_value)]
    ELSE st

\* app.py:245-249  the value after the first colon of the line
AfterColon(line) ==
    LET colon_idx == Find(line, <<":">>, 0)
    IN  IF colon_idx /= -1 THEN TrimValue(Slice(line, colon_idx + 1, Len(line))) ELSE <<>>

\* app.py:235-265  one iteration of the loop over the lines
ScanLine(st, rawline) ==
    LET line == Strip(rawline)
        low  == Lower(line)
    IN  IF line = <<>> THEN st
        ELSE IF \E x \in InsightIndicators : Contains(low, x)
        THEN [Flush(st) EXCEPT !.current_field = "insight", !.current_value = AfterColon(line)]
        ELSE IF \E x \in RecommendationIndicators : Contains(low, x)
        THEN [Flush(st) EXCEPT !.current_field = "recommendation",
                               !.current_value = AfterColon(line)]
        ELSE IF st.current_field /= "None"
        THEN [st EXCEPT !.current_value =
                  IF @ /= <<>> THEN @ \o <<" ">> \o TrimValue(line) ELSE TrimValue(line)]
        ELSE st

RECURSIVE ScanLines(_, _, _)
ScanLines(st, lines, i) ==
    IF i > Len(lines) THEN st ELSE ScanLines(ScanLine(st, lines[i]), lines, i + 1)

\* app.py:228-269  the line scan of response.text, with the last flush
HeuristicScan(raw) == Flush(ScanLines(ScanStart, Split(raw, <<"\n">>), 1))

\* app.py:272-279  nothing found: use the whole response
WholeResponse(st, raw) ==
    LET response_text == Strip(raw)
    IN  IF st.insight = <<>> /\ st.recommendation = <<>>
        THEN IF Len(response_text) > WholeResponseThreshold
             THEN [st EXCEPT !.insight = Slice(response_text, 0, WholeResponseLen) \o S_ellipsis,
                             !.recommendation = S_review_recommendation]
             ELSE [st EXCEPT !.insight = response_text,
                             !.recommendation = S_consider_recommendation]
        ELSE st

\* app.py:227-279  result of the fallback parsing
FallbackParse(raw) ==
    LET st == WholeResponse(HeuristicScan(raw), raw)
    IN  JObj(<<[k |-> S_insight, v |-> JStr(st.insight)],
               [k |-> S_recommendation, v |-> JStr(st.recommendation)]>>)

\* result.get(key, "")
GetOrEmpty(result, key) == IF DictHas(result, key) THEN DictGet(result, key) ELSE JStr(<<>>)

\* app.py:282-287  ValueError for a non-dict, AttributeError for .strip() of a
\* value that is no string
FinalizeRaises(result) ==
    \/ result.t /= "obj"
    \/ GetOrEmpty(result, S_insight).t /= "str"
    \/ GetOrEmpty(result, S_recommendation).t /= "str"

\* a truncation that keeps the whole length for the text and the marker
MutTruncate(v, cap) == IF Len(v) > cap THEN Slice(v, 0, cap - 3) \o S_ellipsis ELSE v

\* app.py:295-298  truncate if too long
Truncate(v, cap) == IF Len(v) > cap THEN Slice(v, 0, cap) \o S_ellipsis ELSE v

\* a default substitution that never happens
MutOrDefault(v, default) == v

\* app.py:289-292  the default for an empty value
OrDefault(v, default) == IF v = <<>> THEN default ELSE v

\* a clean-up that does not strip the value
MutClean(v) == v

\* app.py:286-287  .strip() of the value
Clean(v) == Strip(v)

\* app.py:286-298  one field of final_result
FinalField(result, key, default, cap) ==
    Truncate(OrDefault(Clean(GetOrEmpty(result, key).s), default), cap)

GiIdle ==
    [pc |-> "idle", text |-> <<>>, raw |-> <<>>, response_text |-> <<>>, result |-> JNone,
     status |-> 0, body |-> "none", insight |-> <<>>, recommendation |-> <<>>]

\* app.py:308-320  the handler's except branch: 500 with the literal record
GiErrorResponse(g) ==
    [g EXCEPT !.pc = "done", !.status = 500, !.body = "error_analysis",
              !.insight = S_error_insight, !.recommendation = S_error_recommendation]

\* app.py:153-154, 308-320  the 400 raised for an empty text inside the try
\* block is caught by "except Exception"
BlankText(g) == GiErrorResponse(g)

\* app.py:144-160  the request arrives; without a model the 500 is raised
\* outside the try block; an empty text raises inside it
InsightsStart(texts) ==
    /\ gi.pc = "idle"
    /\ \E text \in texts :
        LET g == [GiIdle EXCEPT !.text = text]
        IN  gi' = IF DEFAULT_MODEL = NoModel
                  THEN [g EXCEPT !.pc = "done", !.status = 500, !.body = "detail"]
                  ELSE IF Strip(text) = <<>> THEN BlankText(g)
                  ELSE [g EXCEPT !.pc = "call"]
    /\ UNCHANGED <<DEFAULT_MODEL, up, dir, inodes, gp, sn>>

\* app.py:184-202  the model call fails (generate_content or response.text
\* raises), or answers with a text
InsightsCall(raws) ==
    /\ gi.pc = "call"
    /\ \/ gi' = GiErrorResponse(gi)
       \/ \E raw \in raws :
            gi' = [gi EXCEPT !.pc = "fence", !.raw = raw, !.response_text = Strip(raw)]
    /\ UNCHANGED <<DEFAULT_MODEL, up, dir, inodes, gp, sn>>

\* app.py:204-210
InsightsFence ==
    /\ gi.pc = "fence"
    /\ gi' = [gi EXCEPT !.pc = "slice", !.response_text = FenceStrip(@)]
    /\ UNCHANGED <<DEFAULT_MODEL, up, dir, inodes, gp, sn>>

\* app.py:212-219
InsightsSlice ==
    /\ gi.pc = "slice"
    /\ gi' = [gi EXCEPT !.pc = "parse", !.response_text = BraceSlice(@)]
    /\ UNCHANGED <<DEFAULT_MODEL, up, dir, inodes, gp, sn>>

\* app.py:221-225
InsightsParse ==
    /\ gi.pc = "parse"
    /\ LET r == JsonLoads(gi.response_text)
       IN  gi' = IF r.ok THEN [gi EXCEPT !.pc = "finalize", !.result = r.v]
                 ELSE [gi EXCEPT !.pc = "heuristic"]
    /\ UNCHANGED <<DEFAULT_MODEL, up, dir, inodes, gp, sn>>

\* app.py:227-279
InsightsHeuristic ==
    /\ gi.pc = "heuristic"
    /\ gi' = [gi EXCEPT !.pc = "finalize", !.result = FallbackParse(gi.raw)]
    /\ UNCHANGED <<DEFAULT_MODEL, up, dir, inodes, gp, sn>>

\* app.py:281-320
InsightsFinalize ==
    /\ gi.pc = "finalize"
    /\ gi' = IF FinalizeRaises(gi.result) THEN GiErrorResponse(gi)
             ELSE [gi EXCEPT !.pc = "done", !.status = 200, !.body = "analysis",
                       !.insight = FinalField(gi.result, S_insight, S_default_insight,
                                              InsightCap),
                       !.recommendation = FinalField(gi.result, S_recommendation,
                                                     S_default_recommendation,
                                                     RecommendationCap)]
    /\ UNCHANGED <<DEFAULT_MODEL, up, dir, inodes, gp, sn>>

\* the response is sent and the request-scoped state is discarded
InsightsReturn ==
    /\ gi.pc = "done"
    /\ gi' = GiIdle
    /\ UNCHANGED <<DEFAULT_MODEL, up, dir, inodes, gp, sn>>

----------------------------------------------------------------------------
(* generate_podcast                                                        *)

\* app.py:472  the keys of the script
S_title == <<"t", "i", "t", "l", "e">>

S_duration_estimate ==
    <<"d", "u", "r", "a", "t", "i", "o", "n", "_", "e", "s", "t", "i", "m", "a", "t", "e">>

S_conversation == <<"c", "o", "n", "v", "e", "r", "s", "a", "t", "i", "o", "n">>

\* app.py:424-428  the keys of an exchange, the two hosts
S_speaker == <<"s", "p", "e", "a", "k", "e", "r">>

S_text == <<"t", "e", "x", "t">>

S_timestamp == <<"t", "i", "m", "e", "s", "t", "a", "m", "p">>

S_Alex == <<"A", "l", "e", "x">>

S_Sam == <<"S", "a", "m">>

\* app.py:498
S_error == <<"e", "r", "r", "o", "r">>

S_error_prefix ==
    <<"F", "a", "i", "l", "e", "d", " ", "t", "o", " ", "g", "e", "n", "e", "r", "a", "t", "e",
      " ", "p", "o", "d", "c", "a", "s", "t", ":", " ">>

\* app.py:419
S_discussion == <<"D", "i", "s", "c", "u", "s", "s", "i", "o", "n", ":", " ">>

S_ai_analysis_discussion ==
    <<"A", "I", " ", "A", "n", "a", "l", "y", "s", "i", "s", " ", "D", "i", "s", "c", "u", "s",
      "s", "i", "o", "n">>

\* app.py:423
S_decode_duration == <<"5", "-", "7", " ", "m", "i", "n", "u", "t", "e", "s">>

\* app.py:499
S_error_title ==
    <<"C", "o", "n", "t", "e", "n", "t", " ", "A", "n", "a", "l", "y", "s", "i", "s", " ", "D",
      "i", "s", "c", "u", "s", "s", "i", "o", "n">>

\* app.py:500
S_error_duration == <<"4", "-", "6", " ", "m", "i", "n", "u", "t", "e", "s">>

\* app.py:514
S_error_insight_default ==
    <<"T", "h", "e", " ", "c", "o", "n", "t", "e", "n", "t", " ", "c", "o", "n", "t", "a", "i",
      "n", "s", " ", "v", "a", "l", "u", "a", "b", "l", "e", " ", "i", "n", "f", "o", "r", "m",
      "a", "t", "i", "o", "n", " ", "w", "o", "r", "t", "h", " ", "a", "n", "a", "l", "y", "z",
      "i", "n", "g", ".">>

\* app.py:519
S_error_recommendation_default ==
    <<"C", "o", "n", "s", "i", "d", "e", "r", " ", "h", "o", "w", " ", "t", "h", "i", "s", " ",
      "i", "n", "f", "o", "r", "m", "a", "t", "i", "o", "n", " ", "a", "p", "p", "l", "i", "e",
      "s", " ", "t", "o", " ", "y", "o", "u", "r", " ", "s", "p", "e", "c", "i", "f", "i", "c",
      " ", "c", "o", "n", "t", "e", "x", "t", ".">>

\* app.py:470
S_not_dict ==
    <<"R", "e", "s", "u", "l", "t", " ", "i", "s", " ", "n", "o", "t", " ", "a", " ", "d", "i",
      "c", "t", "i", "o", "n", "a", "r", "y">>

\* app.py:475
S_missing_field ==
    <<"M", "i", "s", "s", "i", "n", "g", " ", "r", "e", "q", "u", "i", "r", "e", "d", " ", "f",
      "i", "e", "l", "d", ":", " ">>

\* app.py:334  str() of the HTTPException
S_blank_text ==
    <<"4", "0", "0", ":", " ", "T", "e", "x", "t", " ", "c", "a", "n", "n", "o", "t", " ", "b",
      "e", " ", "e", "m", "p", "t", "y">>

\* app.py:478-485  a value that cannot be iterated, searched or assigned to
S_type_error == <<"T", "y", "p", "e", "E", "r", "r", "o", "r">>

\* app.py:392-395  generate_content or response.text raises
S_upstream_error == <<"u", "p", "s", "t", "r", "e", "a", "m", " ", "e", "r", "r", "o", "r">>

\* app.py:427  (the text before the request's field)
S_decode_text_1 ==
    <<"W", "e", "l", "c", "o", "m", "e", " ", "e", "v", "e", "r", "y", "o", "n", "e", "!", " ",
      "T", "o", "d", "a", "y", " ", "w", "e", "'", "r", "e", " ", "d", "i", "v", "i", "n", "g",
      " ", "i", "n", "t", "o", " ", "s", "o", "m", "e", " ", "f", "a", "s", "c", "i", "n", "a",
      "t", "i", "n", "g", " ", "c", "o", "n", "t", "e", "n", "t", ".", " ", "H", "e", "r", "e",
      "'", "s", " ", "w", "h", "a", "t", " ", "c", "a", "u", "g", "h", "t", " ", "m", "y", " ",
      "a", "t", "t", "e", "n", "t", "i", "o", "n", ":", " ">>

\* app.py:432
S_decode_text_2 ==
    <<"T", "h", "a", "t", "'", "s", " ", "a", " ", "r", "e", "a", "l", "l", "y", " ", "i", "n",
      "s", "i", "g", "h", "t", "f", "u", "l", " ", "o", "b", "s", "e", "r", "v", "a", "t", "i",
      "o", "n", ",", " ", "A", "l", "e", "x", ".", " ", "W", "h", "a", "t", " ", "I", " ", "f",
      "i", "n", "d", " ", "p", "a", "r", "t", "i", "c", "u", "l", "a", "r", "l", "y", " ", "v",
      "a", "l", "u", "a", "b", "l", "e", " ", "i", "s", " ", "t", "h", "e", " ", "p", "r", "a",
      "c", "t", "i", "c", "a", "l", " ", "a", "n", "g", "l", "e", " ", "h", "e", "r", "e", ".">>

\* app.py:437
S_decode_text_3 ==
    <<"E", "x", "a", "c", "t", "l", "y", "!", " ", "T", "h", "e", " ", "a", "n", "a", "l", "y",
      "s", "i", "s", " ", "r", "e", "v", "e", "a", "l", "s", " ", "s", "o", "m", "e", " ", "d",
      "e", "e", "p", "e", "r", " ", "p", "a", "t", "t", "e", "r", "n", "s", " ", "t", "h", "a",
      "t", " ", "a", "r", "e", "n", "'", "t", " ", "i", "m", "m", "e", "d", "i", "a", "t", "e",
      "l", "y", " ", "o", "b", "v", "i", "o", "u", "s", " ", "o", "n", " ", "f", "i", "r", "s",
      "t", " ", "r", "e", "a", "d", "i", "n", "g", ".">>

\* app.py:442  (the text before the request's field)
S_decode_text_4 ==
    <<"A", "n", "d", " ", "s", "p", "e", "a", "k", "i", "n", "g", " ", "o", "f", " ", "p", "r",
      "a", "c", "t", "i", "c", "a", "l", " ", "a", "p", "p", "l", "i", "c", "a", "t", "i", "o",
      "n", "s", ",", " ", "h", "e", "r", "e", "'", "s", " ", "w", "h", "a", "t", " ", "I", " ",
      "t", "h", "i", "n", "k", " ", "o", "u", "r", " ", "l", "i", "s", "t", "e", "n", "e", "r",
      "s", " ", "s", "h", "o", "u", "l", "d", " ", "c", "o", "n", "s", "i", "d", "e", "r", ":",
      " ">>

\* app.py:447
S_decode_text_5 ==
    <<"T", "h", "a", "t", "'", "s", " ", "s", "u", "c", "h", " ", "a", "n", " ", "a", "c", "t",
      "i", "o", "n", "a", "b", "l", "e", " ", "t", "a", "k", "e", "a", "w", "a", "y", ",", " ",
      "S", "a", "m", ".", " ", "I", "t", " ", "b", "r", "i", "d", "g", "e", "s", " ", "t", "h",
      "e", " ", "g", "a", "p", " ", "b", "e", "t", "w", "e", "e", "n", " ", "u", "n", "d", "e",
      "r", "s", "t", "a", "n", "d", "i", "n", "g", " ", "a", "n", "d", " ", "a", "c", "t", "u",
      "a", "l", "l", "y", " ", "d", "o", "i", "n", "g", " ", "s", "o", "m", "e", "t", "h", "i",
      "n", "g", " ", "a", "b", "o", "u", "t", " ", "i", "t", ".">>

\* app.py:452
S_decode_text_6 ==
    <<"A", "b", "s", "o", "l", "u", "t", "e", "l", "y", ".", " ", "S", "o", "m", "e", "t", "i",
      "m", "e", "s", " ", "t", "h", "e", " ", "m", "o", "s", "t", " ", "v", "a", "l", "u", "a",
      "b", "l", "e", " ", "i", "n", "s", "i", "g", "h", "t", "s", " ", "c", "o", "m", "e", " ",
      "f", "r", "o", "m", " ", "t", "a", "k", "i", "n", "g", " ", "a", " ", "s", "t", "e", "p",
      " ", "b", "a", "c", "k", " ", "a", "n", "d", " ", "l", "o", "o", "k", "i", "n", "g", " ",
      "a", "t", " ", "t", "h", "e", " ", "b", "i", "g", "g", "e", "r", " ", "p", "i", "c", "t",
      "u", "r", "e", ".">>

\* app.py:457
S_decode_text_7 ==
    <<"T", "h", "i", "s", " ", "t", "y", "p", "e", " ", "o", "f", " ", "c", "o", "n", "t", "e",
      "n", "t", " ", "a", "n", "a", "l", "y", "s", "i", "s", " ", "r", "e", "a", "l", "l", "y",
      " ", "s", "h", "o", "w", "s", " ", "h", "o", "w", " ", "m", "u", "c", "h", " ", "d", "e",
      "p", "t", "h", " ", "t", "h", "e", "r", "e", " ", "i", "s", " ", "i", "n", " ", "s", "e",
      "e", "m", "i", "n", "g", "l", "y", " ", "s", "t", "r", "a", "i", "g", "h", "t", "f", "o",
      "r", "w", "a", "r", "d", " ", "m", "a", "t", "e", "r", "i", "a", "l", ".">>

\* app.py:462
S_decode_text_8 ==
    <<"T", "h", "a", "n", "k", "s", " ", "f", "o", "r", " ", "j", "o", "i", "n", "i", "n", "g",
      " ", "u", "s", " ", "i", "n", " ", "t", "h", "i", "s", " ", "a", "n", "a", "l", "y", "s",
      "i", "s", ",", " ", "e", "v", "e", "r", "y", "o", "n", "e", ".", " ", "T", "h", "e", " ",
      "k", "e", "y", " ", "i", "s", " ", "t", "o", " ", "n", "o", "t", " ", "j", "u", "s", "t",
      " ", "c", "o", "n", "s", "u", "m", "e", " ", "c", "o", "n", "t", "e", "n", "t", ",", " ",
      "b", "u", "t", " ", "t", "o", " ", "a", "c", "t", "i", "v", "e", "l", "y", " ", "e", "n",
      "g", "a", "g", "e", " ", "w", "i", "t", "h", " ", "i", "t", ".">>

\* app.py:504
S_error_text_1 ==
    <<"I", " ", "a", "p", "o", "l", "o", "g", "i", "z", "e", ",", " ", "b", "u", "t", " ", "w",
      "e", "'", "r", "e", " ", "e", "x", "p", "e", "r", "i", "e", "n", "c", "i", "n", "g", " ",
      "s", "o", "m", "e", " ", "t", "e", "c", "h", "n", "i", "c", "a", "l", " ", "d", "i", "f",
      "f", "i", "c", "u", "l", "t", "i", "e", "s", " ", "g", "e", "n", "e", "r", "a", "t", "i",
      "n", "g", " ", "t", "h", "e", " ", "f", "u", "l", "l", " ", "p", "o", "d", "c", "a", "s",
      "t", " ", "d", "i", "s", "c", "u", "s", "s", "i", "o", "n", ".">>

\* app.py:509
S_error_text_2 ==
    <<"H", "o", "w", "e", "v", "e", "r", ",", " ", "w", "e", " ", "c", "a", "n", " ", "s", "t",
      "i", "l", "l", " ", "d", "i", "s", "c", "u", "s", "s", " ", "t", "h", "e", " ", "k", "e",
      "y", " ", "i", "n", "s", "i", "g", "h", "t", "s", " ", "f", "r", "o", "m", " ", "y", "o",
      "u", "r", " ", "s", "e", "l", "e", "c", "t", "e", "d", " ", "t", "e", "x", "t", " ", "a",
      "n", "d", " ", "p", "r", "o", "v", "i", "d", "e", " ", "v", "a", "l", "u", "a", "b", "l",
      "e", " ", "r", "e", "c", "o", "m", "m", "e", "n", "d", "a", "t", "i", "o", "n", "s", ".">>

\* app.py:514  (the text before the request's field)
S_error_text_3 ==
    <<"T", "h", "e", " ", "m", "a", "i", "n", " ", "i", "n", "s", "i", "g", "h", "t", " ", "w",
      "e", " ", "g", "a", "t", "h", "e", "r", "e", "d", " ", "i", "s", ":", " ">>

\* app.py:519  (the text before the request's field)
S_error_text_4 ==
    <<"A", "n", "d", " ", "o", "u", "r", " ", "r", "e", "c", "o", "m", "m", "e", "n", "d", "a",
      "t", "i", "o", "n", " ", "w", "o", "u", "l", "d", " ", "b", "e", ":", " ">>

\* one exchange of a literal script
Exchange(speaker, text, timestamp) ==
    JObj(<<[k |-> S_speaker, v |-> JStr(speaker)], [k |-> S_text, v |-> JStr(text)],
           [k |-> S_timestamp, v |-> JStr(timestamp)]>>)

\* app.py:419
DecodeTitle(insight) ==
    IF insight /= <<>> THEN S_discussion \o Slice(insight, 0, 50) \o S_ellipsis
    ELSE S_ai_analysis_discussion

\* a decode failure that leaves the result without any key
MutDecodeFallback(insight, recommendation) == JObj(<<>>)

\* app.py:419-466  the script built when the answer is no JSON
DecodeFallback(insight, recommendation) ==
    JObj(<<[k |-> S_title, v |-> JStr(DecodeTitle(insight))],
           [k |-> S_duration_estimate, v |-> JStr(S_decode_duration)],
           [k |-> S_conversation, v |-> JArr(<<
               Exchange(S_Alex, S_decode_text_1 \o Slice(insight, 0, 150), <<"0", "0", ":", "0", "0">>),
               Exchange(S_Sam, S_decode_text_2, <<"0", "0", ":", "2", "5">>),
               Exchange(S_Alex, S_decode_text_3, <<"0", "0", ":", "4", "5">>),
               Exchange(S_Sam, S_decode_text_4 \o Slice(recommendation, 0, 150),
                        <<"0", "1", ":", "1", "0">>),
               Exchange(S_Alex, S_decode_text_5, <<"0", "1", ":", "4", "0">>),
               Exchange(S_Sam, S_decode_text_6, <<"0", "2", ":", "0", "5">>),
               Exchange(S_Alex, S_decode_text_7, <<"0", "2", ":", "3", "0">>),
               Exchange(S_Sam, S_decode_text_8, <<"0", "2", ":", "5", "5">>)>>)]>>)

\* app.py:496-522  the content of the 500 answer of the except branch
ErrorContent(message, insight, recommendation) ==
    JObj(<<[k |-> S_error, v |-> JStr(S_error_prefix \o message)],
           [k |-> S_title, v |-> JStr(S_error_title)],
           [k |-> S_duration_estimate, v |-> JStr(S_error_duration)],
           [k |-> S_conversation, v |-> JArr(<<
               Exchange(S_Alex, S_error_text_1, <<"0", "0", ":", "0", "0">>),
               Exchange(S_Sam, S_error_text_2, <<"0", "0", ":", "2", "0">>),
               Exchange(S_Alex,
                        S_error_text_3 \o (IF insight /= <<>> THEN insight
                                           ELSE S_error_insight_default),
                        <<"0", "0", ":", "4", "0">>),
               Exchange(S_Sam,
                        S_error_text_4 \o (IF recommendation /= <<>> THEN recommendation
                                           ELSE S_error_recommendation_default),
                        <<"0", "1", ":", "0", "5">>)>>)]>>)

\* app.py:405-410  remove markdown code blocks; nothing is stripped or
\* sliced afterwards
PodcastFenceStrip(response_text) ==
    IF StartsWith(response_text, S_fence)
    THEN LET parts == Split(response_text, S_fence)
         IN  IF Len(parts) >= 2
             THEN IF StartsWith(parts[2], S_json)
                  THEN Slice(parts[2], 4, Len(parts[2]))
                  ELSE parts[2]
             ELSE response_text
    ELSE response_text

\* app.py:472
RequiredFields == <<S_title, S_duration_estimate, S_conversation>>

\* app.py:473-475  the first required field that the result lacks, 0 for none
FirstMissing(result) ==
    LET missing == {i \in 1..Len(RequiredFields) : ~DictHas(result, RequiredFields[i])}
    IN  IF missing = {} THEN 0 ELSE MinOf(missing)

\* app.py:479  enumerate(conversation): the elements of a list, the keys of a
\* dict, the characters of a string
Items(conversation) ==
    CASE conversation.t = "arr" -> conversation.a
      [] conversation.t = "obj" -> [i \in 1..Len(conversation.a) |-> JStr(conversation.a[i].k)]
      [] conversation.t = "str" -> [i \in 1..Len(conversation.s) |-> JStr(<<conversation.s[i]>>)]
      [] OTHER -> <<>>

\* app.py:480  "timestamp" in item: a key of a dict, a part of a string, an
\* element of a list
HasTimestamp(item) ==
    CASE item.t = "obj" -> DictHas(item, S_timestamp)
      [] item.t = "str" -> Contains(item.s, S_timestamp)
      [] item.t = "arr" -> \E i \in 1..Len(item.a) : item.a[i] = JStr(S_timestamp)
      [] OTHER -> FALSE

\* app.py:480, 485  TypeError: a number, a boolean or None cannot be searched,
\* a string and a list take no item "timestamp"
ItemRaises(item) ==
    \/ item.t \notin {"obj", "str", "arr"}
    \/ item.t \in {"str", "arr"} /\ ~HasTimestamp(item)

\* app.py:479-485  TypeError in the loop over the conversation
BackfillRaises(conversation) ==
    \/ conversation.t \notin {"arr", "obj", "str"}
    \/ \E i \in 1..Len(Items(conversation)) : ItemRaises(Items(conversation)[i])

\* str(n) of a natural number
RECURSIVE Decimal(_)
Decimal(n) == IF n < 10 THEN <<Digits[n + 1]>> ELSE Decimal(n \div 10) \o <<Digits[(n % 10) + 1]>>

\* f"{n:02d}"
TwoDigits(n) == IF n < 10 THEN <<"0">> \o Decimal(n) ELSE Decimal(n)

\* a timestamp whose seconds are not reduced modulo 60
MutTimestamp(i) == TwoDigits((i * 25) \div 60) \o <<":">> \o TwoDigits(i * 25)

\* app.py:482-485  the timestamp of the exchange at index i
Timestamp(i) ==
    LET seconds == i * 25
        minutes == seconds \div 60
    IN  TwoDigits(minutes) \o <<":">> \o TwoDigits(seconds % 60)

\* app.py:478-485  the conversation after the loop, when nothing raised
Backfill(conversation) ==
    IF conversation.t = "arr"
    THEN JArr([i \in 1..Len(conversation.a) |->
                 IF conversation.a[i].t = "obj" /\ ~HasTimestamp(conversation.a[i])
                 THEN DictSet(conversation.a[i], S_timestamp, JStr(Timestamp(i - 1)))
                 ELSE conversation.a[i]])
    ELSE conversation

\* app.py:468-485  the exception the validation ends with, if any
ValidateRaises(result) ==
    \/ result.t /= "obj"
    \/ FirstMissing(result) /= 0
    \/ BackfillRaises(DictGet(result, S_conversation))

\* app.py:470, 475  str(e)
ValidateMessage(result) ==
    IF result.t /= "obj" THEN S_not_dict
    ELSE IF FirstMissing(result) /= 0
    THEN S_missing_field \o RequiredFields[FirstMissing(result)]
    ELSE S_type_error

GpIdle ==
    [pc |-> "idle", text |-> <<>>, insight |-> <<>>, recommendation |-> <<>>, raw |-> <<>>,
     response_text |-> <<>>, result |-> JNone, status |-> 0, body |-> "none",
     content |-> JNone]

\* an except branch that answers with the bare error
MutGpErrorResponse(g, message) ==
    [g EXCEPT !.pc = "done", !.status = 500, !.body = "detail"]

\* app.py:490-524  the handler's except branch: 500 with the literal script
GpErrorResponse(g, message) ==
    [g EXCEPT !.pc = "done", !.status = 500, !.body = "error_script",
              !.content = ErrorContent(message, g.insight, g.recommendation)]

\* app.py:324-339  the request arrives; without a model the 500 is raised
\* outside the try block; an empty text raises inside it
PodcastStart(requests) ==
    /\ gp.pc = "idle"
    /\ \E req \in requests :
        LET g == [GpIdle EXCEPT !.text = req.text, !.insight = req.insight,
                                !.recommendation = req.recommendation]
        IN  gp' = IF DEFAULT_MODEL = NoModel
                  THEN [g EXCEPT !.pc = "done", !.status = 500, !.body = "detail"]
                  ELSE IF Strip(req.text) = <<>> THEN GpErrorResponse(g, S_blank_text)
                  ELSE [g EXCEPT !.pc = "call"]
    /\ UNCHANGED <<DEFAULT_MODEL, up, dir, inodes, gi, sn>>

\* app.py:381-402  the model call fails (generate_content or response.text
\* raises), or answers with a text
PodcastCall(raws) ==
    /\ gp.pc = "call"
    /\ \/ gp' = GpErrorResponse(gp, S_upstream_error)
       \/ \E raw \in raws :
            gp' = [gp EXCEPT !.pc = "fence", !.raw = raw, !.response_text = Strip(raw)]
    /\ UNCHANGED <<DEFAULT_MODEL, up, dir, inodes, gi, sn>>

\* app.py:404-410
PodcastFence ==
    /\ gp.pc = "fence"
    /\ gp' = [gp EXCEPT !.pc = "parse", !.response_text = PodcastFenceStrip(@)]
    /\ UNCHANGED <<DEFAULT_MODEL, up, dir, inodes, gi, sn>>

\* app.py:412-466
PodcastParse ==
    /\ gp.pc = "parse"
    /\ LET r == JsonLoads(gp.response_text)
       IN  gp' = [gp EXCEPT !.pc = "validate",
                            !.result = IF r.ok THEN r.v
                                       ELSE DecodeFallback(gp.insight, gp.recommendation)]
    /\ UNCHANGED <<DEFAULT_MODEL, up, dir, inodes, gi, sn>>

\* app.py:468-524
PodcastValidate ==
    /\ gp.pc = "validate"
    /\ gp' = IF ValidateRaises(gp.result)
             THEN GpErrorResponse(gp, ValidateMessage(gp.result))
             ELSE [gp EXCEPT !.pc = "done", !.status = 200, !.body = "script",
                       !.content = DictSet(gp.result, S_conversation,
                                           Backfill(DictGet(gp.result, S_conversation)))]
    /\ UNCHANGED <<DEFAULT_MODEL, up, dir, inodes, gi, sn>>

\* the response is sent and the request-scoped state is discarded
PodcastReturn ==
    /\ gp.pc = "done"
    /\ gp' = GpIdle
    /\ UNCHANGED <<DEFAULT_MODEL, up, dir, inodes, gi, sn>>

----------------------------------------------------------------------------
(* Specifications                                                          *)

\* the service after start-up, no request in progress, UPLOAD_DIR empty
InitService ==
    /\ DEFAULT_MODEL \in StartupModels
    /\ up = [p \in Uploaders |-> UpIdle]
    /\ dir = <<>>
    /\ inodes = <<>>
    /\ gi = GiIdle
    /\ gp = GpIdle
    /\ sn = <<>>

\* -- the filename sanitization as a function of its input ----------------

NameChars == <<".", "p", "d", "f", "F", " ", "/">>

MaxNameLen == 5

Names == UNION {[1..n -> Range(NameChars)] : n \in 0..MaxNameLen}

InitSanitize ==
    /\ DEFAULT_MODEL = NoModel
    /\ up = [p \in Uploaders |-> UpIdle]
    /\ dir = <<>>
    /\ inodes = <<>>
    /\ gi = GiIdle
    /\ gp = GpIdle
    /\ sn \in {<<x>> : x \in Names}

\* app.py:83-85 applied to the last result
SanitizeStep ==
    /\ Len(sn) \in 1..2
    /\ sn' = Append(sn, Sanitize(sn[Len(sn)]))
    /\ UNCHANGED <<DEFAULT_MODEL, up, dir, inodes, gi, gp>>

NextSanitize == SanitizeStep

SpecSanitize == InitSanitize /\ [][NextSanitize]_vars

\* -- one uploader, requests one after the other ---------------------------

S_name_space == <<"a", " ", "b", ".", "p", "d", "f">>
S_name_upper == <<"a", ".", "P", "D", "F">>
S_name_txt == <<"a", ".", "t", "x", "t">>

UploadNames == {S_name_space, S_name_upper, S_name_txt, <<>>}

StreamSizes == {0, ChunkSize, MaxUploadBytes, MaxUploadBytes + 1}

NextUpload ==
    \/ UploadStart(1, UploadNames, StreamSizes)
    \/ UploadChunk(1)
    \/ UploadFinish(1)
    \/ UploadReturn(1)

InitUpload ==
    /\ DEFAULT_MODEL = NoModel
    /\ up = [p \in Uploaders |-> UpIdle]
    /\ dir = <<>>
    /\ inodes = <<>>
    /\ gi = GiIdle
    /\ gp = GpIdle
    /\ sn = <<>>

SpecUpload == InitUpload /\ [][NextUpload]_vars

\* -- two uploads at once, interleaved at each await of file.read ----------

S_name_plain == <<"a", "b", ".", "p", "d", "f">>

\* two filenames with the same sanitized name
ConcurrentNames == {S_name_space, S_name_plain}

\* streams of one and of two full chunks (a full chunk reaches the file when
\* it is written, a shorter last one when the file is closed)
ConcurrentSizes == {ChunkSize, 2 * ChunkSize}

NextConcurrentUpload ==
    \E p \in Uploaders :
        \/ UploadStart(p, ConcurrentNames, ConcurrentSizes)
        \/ UploadChunk(p)
        \/ UploadFinish(p)
        \/ UploadReturn(p)

SpecConcurrentUpload == InitUpload /\ [][NextConcurrentUpload]_vars

\* -- get_insights, requests one after the other ---------------------------

\* req.text
RequestTexts == {<<>>, <<" ", "\n">>, <<" ", "a", "\n">>}

\* every text of at most MaxRawLen characters over RawChars
RawChars == <<"{", "}", ":", "\"", "a", " ", "\n">>

MaxRawLen == 3

SmallTexts == UNION {[1..n -> Range(RawChars)] : n \in 0..MaxRawLen}

\* every concatenation of at most MaxPieces of the pieces of a line-oriented answer
S_piece_value == <<" ", "A">>
S_piece_quoted == <<" ", "\"", "B", "\"", ",">>

ScanPieces ==
    <<K_insight_1, K_recommendation_1, K_insight_2, S_piece_value, S_piece_quoted, <<"\n">>>>

MaxPieces == 4

RECURSIVE Concat(_)
Concat(ss) == IF ss = <<>> THEN <<>> ELSE Head(ss) \o Concat(Tail(ss))

PieceTexts ==
    {Concat(ps) : ps \in UNION {[1..n -> Range(ScanPieces)] : n \in 0..MaxPieces}}

\* field values around the length caps, some with surrounding whitespace
FieldValues(cap) ==
    { <<>>, <<" ">>, <<"A">>, <<" ", "A", " ">>, Rep("q", cap), Rep("q", cap + 1),
      Rep("q", cap) \o <<" ">>, <<" ">> \o Rep("q", cap + 2) }

Quoted(s) == <<"\"">> \o s \o <<"\"">>

\* {"insight": "v1", "recommendation": "v2"}
ObjectText(v1, v2) ==
    <<"{">> \o Quoted(S_insight) \o <<":", " ">> \o Quoted(v1) \o <<",", " ">>
    \o Quoted(S_recommendation) \o <<":", " ">> \o Quoted(v2) \o <<"}">>

\* other JSON texts: a missing key, values that are no strings, no object
OddJson ==
    { <<"{", "}">>,
      <<"{">> \o Quoted(S_insight) \o <<":", "5", "}">>,
      <<"{">> \o Quoted(S_insight) \o <<":">> \o S_null \o <<"}">>,
      <<"{">> \o Quoted(S_recommendation) \o <<":", " ">> \o Quoted(<<"B">>) \o <<"}">>,
      <<"{">> \o Quoted(S_insight) \o <<":", "{", "}", "}">>,
      <<"[", "1", "]">>, Quoted(<<"A">>), <<"5">> }

JsonBodies ==
    {ObjectText(v1, v2) : v1 \in FieldValues(InsightCap), v2 \in FieldValues(RecommendationCap)}
    \cup OddJson

S_sure == <<"S", "u", "r", "e", "!", " ">>
S_ok == <<" ", "o", "k">>

\* <<text before, text after>> a JSON body
Wrappers ==
    { << <<>>, <<>> >>,
      << S_sure, <<>> >>,
      << <<>>, S_ok >>,
      << S_sure, S_ok >>,
      << <<" ", "\n">>, <<"\n", " ">> >>,
      << S_fence \o S_json \o <<"\n">>, <<"\n">> \o S_fence >>,
      << S_fence \o <<"\n">>, S_fence >>,
      << S_sure \o S_fence \o S_json \o <<"\n">>, <<"\n">> \o S_fence >>,
      << S_fence \o <<" ", "a", " ">> \o S_fence, <<>> >>,
      << <<"x", " ", "{", "y", "}", " ">>, <<>> >>,
      << S_sure, <<" ", "}">> >> }

WrappedJson == {w[1] \o b \o w[2] : w \in Wrappers, b \in JsonBodies}

S_markets ==
    <<"i", "n", "s", "i", "g", "h", "t", ":", " ", "M", "a", "r", "k", "e", "t", "s", " ",
      "a", "r", "e", " ", "s", "h", "i", "f", "t", "i", "n", "g", "\n", "r", "e", "c", "o", "m",
      "m", "e", "n", "d", "a", "t", "i", "o", "n", ":", " ", "d", "i", "v", "e", "r", "s", "i",
      "f", "y", " ", "h", "o", "l", "d", "i", "n", "g", "s">>

\* texts without structure around the whole-response threshold, long lines
LongTexts ==
    { Rep("w", WholeResponseThreshold), Rep("w", WholeResponseThreshold + 1),
      Rep("w", WholeResponseLen + 1), Rep("w", InsightCap + 100),
      K_insight_1 \o Rep("q", InsightCap + 1) \o <<"\n">> \o K_recommendation_1
          \o Rep("q", RecommendationCap + 1),
      S_markets }

RawTexts == SmallTexts \cup PieceTexts \cup WrappedJson \cup LongTexts

InitInsights ==
    /\ DEFAULT_MODEL \in StartupModels
    /\ up = [p \in Uploaders |-> UpIdle]
    /\ dir = <<>>
    /\ inodes = <<>>
    /\ gi = GiIdle
    /\ gp = GpIdle
    /\ sn = <<>>

NextInsights ==
    \/ InsightsStart(RequestTexts)
    \/ InsightsCall(RawTexts)
    \/ InsightsFence
    \/ InsightsSlice
    \/ InsightsParse
    \/ InsightsHeuristic
    \/ InsightsFinalize
    \/ InsightsReturn

SpecInsights == InitInsights /\ [][NextInsights]_vars

\* -- generate_podcast alone, a model configured ---------------------------

\* the requests: blank and plain texts, with and without the two fields
PodcastRequests ==
    { [text |-> t, insight |-> f[1], recommendation |-> f[2]] :
        t \in {<<>>, <<" ", "\n">>, <<"a">>},
        f \in { << <<>>, <<>> >>, << <<"I">>, <<"R">> >>, << Rep("q", 151), Rep("r", 151) >> } }

MaxExchanges == 4

RECURSIVE Join(_, _)
Join(ss, sep) ==
    IF ss = <<>> THEN <<>>
    ELSE IF Len(ss) = 1 THEN ss[1]
    ELSE ss[1] \o sep \o Join(Tail(ss), sep)

\* "key": "value"
Member(key, value) == Quoted(key) \o <<":", " ">> \o Quoted(value)

S_given_timestamp == <<"0", "9", ":", "0", "9">>

\* {"speaker": "Alex", "text": "t"} with or without a timestamp of its own
ExchangeText(timed) ==
    <<"{">> \o Member(S_speaker, S_Alex) \o <<",", " ">> \o Member(S_text, <<"t">>)
    \o (IF timed THEN <<",", " ">> \o Member(S_timestamp, S_given_timestamp) ELSE <<>>)
    \o <<"}">>

\* the conversations of at most MaxExchanges exchanges, each with or without
\* a timestamp
ConversationTexts ==
    UNION { { <<"[">> \o Join([i \in 1..n |-> ExchangeText(timed[i])], <<",", " ">>) \o <<"]">> :
                timed \in [1..n -> BOOLEAN] } : n \in 0..MaxExchanges }

\* conversations that are no lists of objects
OddConversations ==
    { <<"5">>, S_null, Quoted(<<"x">>), Quoted(<<>>), Quoted(S_timestamp),
      <<"{">> \o Quoted(S_timestamp) \o <<":", "1", "}">>,
      <<"{">> \o Quoted(<<"a">>) \o <<":", "1", "}">>,
      <<"[", "1", "]">>, <<"[">> \o S_null \o <<"]">>,
      <<"[">> \o Quoted(S_timestamp) \o <<"]">>,
      <<"[">> \o Quoted(<<"x">>) \o <<"]">>,
      <<"[", "[">> \o Quoted(S_timestamp) \o <<"]", "]">>,
      <<"[", "[", "]", "]">>,
      <<"[">> \o ExchangeText(FALSE) \o <<",", " ", "1", "]">> }

\* {"title": "T", "duration_estimate": "D", "conversation": ...}
ScriptText(conversation) ==
    <<"{">> \o Member(S_title, <<"T">>) \o <<",", " ">> \o Member(S_duration_estimate, <<"D">>)
    \o <<",", " ">> \o Quoted(S_conversation) \o <<":", " ">> \o conversation \o <<"}">>

\* answers that are no script: no object, a key missing, no JSON
OddScripts ==
    { <<>>, <<"[", "]">>, Quoted(<<"A">>), <<"{", "}">>,
      <<"{">> \o Member(S_title, <<"T">>) \o <<"}">>,
      <<"{">> \o Member(S_title, <<"T">>) \o <<",", " ">> \o Member(S_duration_estimate, <<"D">>)
          \o <<"}">>,
      <<"{">> \o Quoted(S_conversation) \o <<":", " ", "[", "]", "}">>,
      <<"{">> \o Quoted(S_title) \o <<":", " ", "1", ",", " ">> \o Quoted(S_duration_estimate)
          \o <<":", " ">> \o S_null \o <<",", " ">> \o Quoted(S_conversation)
          \o <<":", " ", "[", "]", "}">>,
      <<"h", "e", "l", "l", "o">>,
      <<"{">> \o Member(S_title, <<"T">>) \o <<",">>,
      S_sure \o ScriptText(<<"[", "]">>),
      ScriptText(<<"[", "]">>) \o S_ok,
      S_fence \o S_json \o <<"\n">> \o ScriptText(<<"[">> \o ExchangeText(FALSE) \o <<"]">>)
          \o <<"\n">> \o S_fence,
      S_fence \o <<"\n">> \o ScriptText(<<"[">> \o ExchangeText(TRUE) \o <<"]">>) \o S_fence,
      S_fence \o S_json }

PodcastRaws ==
    {ScriptText(c) : c \in ConversationTexts \cup OddConversations} \cup OddScripts

InitPodcast ==
    /\ DEFAULT_MODEL = PreferredModel
    /\ up = [p \in Uploaders |-> UpIdle]
    /\ dir = <<>>
    /\ inodes = <<>>
    /\ gi = GiIdle
    /\ gp = GpIdle
    /\ sn = <<>>

NextPodcast ==
    \/ PodcastStart(PodcastRequests)
    \/ PodcastCall(PodcastRaws)
    \/ PodcastFence
    \/ PodcastParse
    \/ PodcastValidate
    \/ PodcastReturn

SpecPodcast == InitPodcast /\ [][NextPodcast]_vars

\* -- the two generation endpoints of one service -------------------------
\* Neither handler awaits anything, so the event loop runs each request to
\* its answer before it starts the next.

GenerateRaws == JsonBodies \cup LongTexts \cup PieceTexts

NextGenerate ==
    \/ gp.pc = "idle" /\ InsightsStart(RequestTexts)
    \/ InsightsCall(GenerateRaws)
    \/ InsightsFence
    \/ InsightsSlice
    \/ InsightsParse
    \/ InsightsHeuristic
    \/ InsightsFinalize
    \/ InsightsReturn
    \/ gi.pc = "idle" /\ PodcastStart(PodcastRequests)
    \/ PodcastCall(PodcastRaws)
    \/ PodcastFence
    \/ PodcastParse
    \/ PodcastValidate
    \/ PodcastReturn

SpecGenerate == InitService /\ [][NextGenerate]_vars

----------------------------------------------------------------------------
(* Claims                                                                  *)

\* C5: sanitizing a sanitized filename changes nothing:
\* sanitize(sanitize(x)) = sanitize(x) for every filename x.
SanitizeIdempotent == Len(sn) = 3 => sn[3] = sn[2]

\* C5 witness: a filename that loses characters and gains the extension has
\* been sanitized twice.
SanitizeTwiceReached ==
    /\ Len(sn) = 3
    /\ "/" \in Range(sn[1])
    /\ ~EndsWith(sn[1], S_pdf)
    /\ EndsWith(Lower(sn[1]), S_pdf)
    /\ sn[2] /= sn[1]

\* C3: an accepted upload whose stream is longer than 50 MiB (50 MiB + 1 byte
\* among them) ends with 413 and no file at its path; one of at most 50 MiB
\* (exactly 50 MiB among them) is never answered 413 and its file holds the
\* whole stream.
UploadSizeBoundary ==
    \A p \in Uploaders :
        (up[p].pc = "done" /\ up[p].status /= 400) =>
            IF up[p].total > 50 * 1024 * 1024
            THEN /\ up[p].status = 413
                 /\ up[p].safe_filename \notin DOMAIN dir
            ELSE /\ up[p].status \in {200, 500}
                 /\ up[p].safe_filename \in DOMAIN dir
                 /\ FileSize(inodes[dir[up[p].safe_filename]]) = up[p].total
                 /\ \A i \in 1..Len(inodes[dir[up[p].safe_filename]]) :
                        inodes[dir[up[p].safe_filename]][i].w = p
                 /\ up[p].file_size = up[p].total

\* C3 witness: a stream of 50 MiB + 1 byte has just been aborted with 413
\* while a file of exactly 50 MiB, stored by an earlier upload, is on disk.
UploadBoundaryReached ==
    /\ up[1].pc = "done"
    /\ up[1].status = 413
    /\ up[1].total = 50 * 1024 * 1024 + 1
    /\ \E n \in DOMAIN dir : FileSize(inodes[dir[n]]) = 50 * 1024 * 1024

\* the value the finalization works on: the extracted value without its
\* surrounding whitespace, or the default when nothing is left
Prepared(v, default) ==
    LET a == LeadIn(v, Whitespace)
        t == IF a = Len(v) THEN <<>> ELSE SubSeq(v, a + 1, Len(v) - TrailIn(v, Whitespace))
    IN  IF t = <<>> THEN default ELSE t

\* the truncation law for prepared value t, cap and finalized value out
TruncationLaw(t, cap, out) ==
    IF Len(t) > cap
    THEN /\ Len(out) = cap + 3
         /\ SubSeq(out, 1, cap) = SubSeq(t, 1, cap)
         /\ SubSeq(out, cap + 1, cap + 3) = <<".", ".", ".">>
    ELSE out = t

\* C1 as stated: every record the insight endpoint answers with has a
\* non-empty insight of at most 500 and a non-empty recommendation of at most
\* 300 characters.
InsightWithinCaps ==
    (gi.pc = "done" /\ gi.body \in {"analysis", "error_analysis"}) =>
        /\ Len(gi.insight) \in 1..500
        /\ Len(gi.recommendation) \in 1..300

\* C1 as amended: the fields are non-empty and at most 503 and 303 characters
\* long (the cap plus the three characters of the ellipsis marker).
InsightWithinCapsPlusMarker ==
    (gi.pc = "done" /\ gi.body \in {"analysis", "error_analysis"}) =>
        /\ Len(gi.insight) \in 1..503
        /\ Len(gi.recommendation) \in 1..303

\* C1 witness: a record whose two values were both longer than their caps
\* has been answered, each cut at its cap and followed by the marker.
InsightAtCapReached ==
    /\ gi.pc = "done"
    /\ gi.status = 200
    /\ Len(gi.insight) = 503
    /\ Len(gi.recommendation) = 303

Blank(s) == \A i \in 1..Len(s) : s[i] \in Whitespace

\* C4 as stated: an extracted value longer than the cap L is finalized to
\* length L + 3 ending with "..."; one of length at most L is unchanged.
\* (Stated of the values that hold more than whitespace, so that the default
\* substitution is not in question.)
TruncationOfExtracted ==
    (gi.pc = "done" /\ gi.status = 200) =>
        LET vi == GetOrEmpty(gi.result, S_insight).s
            vr == GetOrEmpty(gi.result, S_recommendation).s
        IN  /\ ~Blank(vi) =>
                  IF Len(vi) > 500
                  THEN Len(gi.insight) = 503 /\ EndsWith(gi.insight, <<".", ".", ".">>)
                  ELSE gi.insight = vi
            /\ ~Blank(vr) =>
                  IF Len(vr) > 300
                  THEN Len(gi.recommendation) = 303
                       /\ EndsWith(gi.recommendation, <<".", ".", ".">>)
                  ELSE gi.recommendation = vr

\* C4 as amended: the law holds of the extracted value once its surrounding
\* whitespace is trimmed and an empty value is replaced by the default.
TruncationOfPrepared ==
    (gi.pc = "done" /\ gi.status = 200) =>
        /\ TruncationLaw(Prepared(GetOrEmpty(gi.result, S_insight).s, S_default_insight),
                         500, gi.insight)
        /\ TruncationLaw(Prepared(GetOrEmpty(gi.result, S_recommendation).s,
                                  S_default_recommendation), 300, gi.recommendation)

\* C4 witness: an insight longer than its cap and a recommendation within
\* its cap have been finalized.
TruncationReached ==
    /\ gi.pc = "done"
    /\ gi.status = 200
    /\ Len(GetOrEmpty(gi.result, S_insight).s) > 500
    /\ Len(gi.insight) = 503
    /\ Len(GetOrEmpty(gi.result, S_recommendation).s) \in 1..300
    /\ gi.recommendation = GetOrEmpty(gi.result, S_recommendation).s

\* an object of the target schema: insight and recommendation are strings
SchemaObject(v) ==
    /\ v.t = "obj"
    /\ \A key \in {S_insight, S_recommendation} :
          DictHas(v, key) /\ DictGet(v, key).t = "str"

\* neither field is empty or only whitespace
FieldsNotBlank(v) ==
    \A key \in {S_insight, S_recommendation} : ~Blank(DictGet(v, key).s)

\* the raw text parses strictly as an object of the target schema
StrictSchemaObject(raw) == JsonLoads(raw).ok /\ SchemaObject(JsonLoads(raw).v)

\* C7 as stated: a raw text that parses strictly as a schema object is
\* answered with exactly its field values, cut at the cap when longer.
\* (Stated of the objects whose fields hold more than whitespace.)
StrictParseExact ==
    (gi.pc = "done" /\ StrictSchemaObject(gi.raw) /\ FieldsNotBlank(JsonLoads(gi.raw).v)) =>
        LET vi == DictGet(JsonLoads(gi.raw).v, S_insight).s
            vr == DictGet(JsonLoads(gi.raw).v, S_recommendation).s
        IN  /\ gi.status = 200
            /\ gi.insight = IF Len(vi) > 500 THEN SubSeq(vi, 1, 500) \o <<".", ".", ".">>
                            ELSE vi
            /\ gi.recommendation = IF Len(vr) > 300
                                   THEN SubSeq(vr, 1, 300) \o <<".", ".", ".">> ELSE vr

\* C7 as amended: it is answered with its field values trimmed of surrounding
\* whitespace, a value that is then empty replaced by the field's default, and
\* the result cut at the cap when longer.
StrictParseTrimmed ==
    (gi.pc = "done" /\ StrictSchemaObject(gi.raw)) =>
        LET vi == DictGet(JsonLoads(gi.raw).v, S_insight).s
            vr == DictGet(JsonLoads(gi.raw).v, S_recommendation).s
        IN  /\ gi.status = 200
            /\ TruncationLaw(Prepared(vi, S_default_insight), 500, gi.insight)
            /\ TruncationLaw(Prepared(vr, S_default_recommendation), 300, gi.recommendation)

\* C7 witness: a strictly parsing object whose insight carries surrounding
\* whitespace has been answered.
StrictParseReached ==
    /\ gi.pc = "done"
    /\ StrictSchemaObject(gi.raw)
    /\ LET vi == DictGet(JsonLoads(gi.raw).v, S_insight).s
       IN  Len(vi) > 500 /\ vi[1] = " " /\ gi.insight[1] = "q"

\* the raw text cut at its first "{" and its last "}": before, object, after
FirstBrace(raw) == MinOf({i \in 1..Len(raw) : raw[i] = "{"})
LastBrace(raw) == MaxOf({i \in 1..Len(raw) : raw[i] = "}"})
TextBefore(raw) == SubSeq(raw, 1, FirstBrace(raw) - 1)
TextBetween(raw) == SubSeq(raw, FirstBrace(raw), LastBrace(raw))
TextAfter(raw) == SubSeq(raw, LastBrace(raw) + 1, Len(raw))

\* prose: no brace, no quote, no backquote
Prose(s) == \A i \in 1..Len(s) : s[i] \notin {"{", "}", "\"", Backquote}

\* the raw text is one valid object with prose before and/or after it
ObjectInProse(raw) ==
    /\ "{" \in Range(raw)
    /\ "}" \in Range(raw)
    /\ FirstBrace(raw) < LastBrace(raw)
    /\ Prose(TextBefore(raw))
    /\ Prose(TextAfter(raw))
    /\ ~Blank(TextBefore(raw)) \/ ~Blank(TextAfter(raw))
    /\ JsonLoads(TextBetween(raw)).ok
    /\ SchemaObject(JsonLoads(TextBetween(raw)).v)

\* the raw text is one valid object after non-blank text that holds no "{"
\* and does not open with a code fence, and before text that holds no "}"
ObjectAfterProse(raw) ==
    /\ "{" \in Range(raw)
    /\ "}" \in Range(raw)
    /\ FirstBrace(raw) < LastBrace(raw)
    /\ ~Blank(TextBefore(raw))
    /\ LET a == LeadIn(raw, Whitespace)
       IN  ~MatchAt(raw, <<Backquote, Backquote, Backquote>>, a)
    /\ JsonLoads(TextBetween(raw)).ok

\* C8 as stated: for a valid object inside prose, the recovered mapping is
\* the object parsed on its own.
SliceRecoversObjectInProse ==
    (gi.pc \in {"finalize", "done"} /\ ObjectInProse(gi.raw)) =>
        gi.result = JsonLoads(TextBetween(gi.raw)).v

\* C8 as amended: for a valid object that follows non-blank prose (no "{" in
\* it, no code fence at its start) and is followed by text without "}", the
\* recovered mapping is the object parsed on its own.
SliceRecoversObjectAfterProse ==
    (gi.pc \in {"finalize", "done"} /\ ObjectAfterProse(gi.raw)) =>
        gi.result = JsonLoads(TextBetween(gi.raw)).v

\* C8 witness: an object with prose on both sides has been recovered and
\* answered.
SliceReached ==
    /\ gi.pc = "done"
    /\ gi.status = 200
    /\ ObjectAfterProse(gi.raw)
    /\ ~Blank(TextAfter(gi.raw))
    /\ gi.insight = <<"A">>


\* -- C9 ------------------------------------------------------------------

\* the trimming the line scan is described to do: surrounding whitespace, a
\* trailing comma, then the surrounding quotes
DescribedTrim(s) ==
    LET t == Strip(s)
        u == IF EndsWith(t, <<",">>) THEN Strip(Slice(t, 0, Len(t) - 1)) ELSE t
    IN  StripChars(u, {"\""})

\* the described value of a field-start line: the text after its first colon
DescribedValue(rawline) ==
    LET line == Strip(rawline)
        colon_idx == MinOf({i \in 1..Len(line) : line[i] = ":"})
    IN  DescribedTrim(SubSeq(line, colon_idx + 1, Len(line)))

\* a value that holds no quote and no comma once trimmed as described
PlainValue(rawline) ==
    /\ DescribedValue(rawline) /= <<>>
    /\ \A i \in 1..Len(DescribedValue(rawline)) : DescribedValue(rawline)[i] \notin {"\"", ","}

IsFieldStart(rawline, indicators) ==
    \E x \in indicators : Contains(Lower(Strip(rawline)), x)

\* an answer of one insight line, or of one insight line and one
\* recommendation line, each with a plain value
FieldLinesOnly(raw) ==
    LET lines == Split(raw, <<"\n">>)
    IN  /\ Len(lines) \in 1..2
        /\ IsFieldStart(lines[1], InsightIndicators)
        /\ PlainValue(lines[1])
        /\ Len(lines) = 2 =>
              /\ IsFieldStart(lines[2], RecommendationIndicators)
              /\ ~IsFieldStart(lines[2], InsightIndicators)
              /\ PlainValue(lines[2])

\* C9: when the JSON stages fail, the line scan gives each field the text
\* after the first colon of its field-start line with the surrounding quotes
\* and a trailing comma trimmed.
ScanAssignsTrimmedValues ==
    (gi.pc = "finalize" /\ ~JsonLoads(gi.response_text).ok /\ FieldLinesOnly(gi.raw)) =>
        LET lines == Split(gi.raw, <<"\n">>)
        IN  /\ DictGet(gi.result, S_insight).s = DescribedValue(lines[1])
            /\ Len(lines) = 2 =>
                  DictGet(gi.result, S_recommendation).s = DescribedValue(lines[2])

\* the example of the description holds: two plain lines give their two values
ScanExample ==
    (gi.pc = "finalize" /\ gi.raw = S_markets) =>
        /\ ~JsonLoads(gi.response_text).ok
        /\ DictGet(gi.result, S_insight).s = DescribedValue(Split(S_markets, <<"\n">>)[1])
        /\ Len(DictGet(gi.result, S_insight).s) = 20
        /\ Len(DictGet(gi.result, S_recommendation).s) = 18


\* -- C6 ------------------------------------------------------------------

\* the number a decimal digit stands for
DigitValue(c) == CHOOSE d \in 0..9 : Digits[d + 1] = c

\* ts reads MM:SS with the given minutes and seconds
ReadsAs(ts, minutes, seconds) ==
    /\ Len(ts) = 5
    /\ ts[3] = ":"
    /\ \A j \in {1, 2, 4, 5} : ts[j] \in Range(Digits)
    /\ 10 * DigitValue(ts[1]) + DigitValue(ts[2]) = minutes
    /\ 10 * DigitValue(ts[4]) + DigitValue(ts[5]) = seconds

\* C6: every exchange at index i of the parsed conversation that lacks a
\* timestamp is answered with the timestamp whose minutes are floor(i*25/60)
\* and whose seconds are (i*25) mod 60, each as two digits.
TimestampBackfill ==
    (gp.pc = "done" /\ gp.status = 200 /\ DictGet(gp.result, S_conversation).t = "arr") =>
        LET before == DictGet(gp.result, S_conversation).a
            after  == DictGet(gp.content, S_conversation).a
        IN  /\ Len(after) = Len(before)
            /\ \A n \in 1..Len(before) :
                  (before[n].t = "obj" /\ ~DictHas(before[n], S_timestamp)) =>
                      /\ after[n].t = "obj"
                      /\ DictHas(after[n], S_timestamp)
                      /\ DictGet(after[n], S_timestamp).t = "str"
                      /\ ReadsAs(DictGet(after[n], S_timestamp).s,
                                 ((n - 1) * 25) \div 60, ((n - 1) * 25) % 60)

\* C6 witness: an exchange at index 3 that came without a timestamp has been
\* answered with "01:15".
TimestampBackfillReached ==
    /\ gp.pc = "done"
    /\ gp.status = 200
    /\ DictGet(gp.result, S_conversation).t = "arr"
    /\ Len(DictGet(gp.result, S_conversation).a) >= 4
    /\ ~DictHas(DictGet(gp.result, S_conversation).a[4], S_timestamp)
    /\ DictGet(DictGet(gp.content, S_conversation).a[4], S_timestamp).s
           = <<"0", "1", ":", "1", "5">>

\* -- C2 ------------------------------------------------------------------

\* the answer of get_insights carries an insight and a recommendation
InsightAnswerConforms ==
    /\ gi.body \in {"analysis", "error_analysis"}
    /\ gi.insight /= <<>>
    /\ gi.recommendation /= <<>>

\* the answer of generate_podcast carries title, duration estimate and
\* conversation
PodcastAnswerConforms ==
    /\ gp.body \in {"script", "error_script"}
    /\ gp.content.t = "obj"
    /\ \A key \in {S_title, S_duration_estimate, S_conversation} : DictHas(gp.content, key)

BlankTextRejected ==
    DEFAULT_MODEL /= NoModel =>
        /\ (gi.pc = "done" /\ Strip(gi.text) = <<>>) => (gi.status = 400 /\ gi.body = "detail")
        /\ (gp.pc = "done" /\ Strip(gp.text) = <<>>) => (gp.status = 400 /\ gp.body = "detail")


\* -- C11 -----------------------------------------------------------------

\* the recovery of generate_podcast ran (the model call answered) and gave no
\* object with the three top-level keys
NoScriptRecovered ==
    /\ gp.pc = "done"
    /\ gp.result /= JNone
    /\ LET r == JsonLoads(gp.response_text)
       IN  \/ ~r.ok
           \/ r.v.t /= "obj"
           \/ \E key \in {S_title, S_duration_estimate, S_conversation} : ~DictHas(r.v, key)

\* a list of n exchanges, each an object with speaker, text and timestamp
\* strings, the speakers Alex and Sam in turn, with the given timestamps
ExchangesOf(conversation, timestamps) ==
    /\ conversation.t = "arr"
    /\ Len(conversation.a) = Len(timestamps)
    /\ \A n \in 1..Len(timestamps) :
          LET e == conversation.a[n]
          IN  /\ e.t = "obj"
              /\ Len(e.a) = 3
              /\ DictHas(e, S_speaker) /\ DictHas(e, S_text) /\ DictHas(e, S_timestamp)
              /\ DictGet(e, S_speaker) = JStr(IF n % 2 = 1 THEN S_Alex ELSE S_Sam)
              /\ DictGet(e, S_text).t = "str"
              /\ DictGet(e, S_timestamp) = JStr(timestamps[n])

\* the text of exchange n of a script
TextOf(content, n) == DictGet(DictGet(content, S_conversation).a[n], S_text).s

\* the literal four-exchange script of the 500 answer, with an error field
FourExchangeFallback ==
    /\ gp.status = 500
    /\ gp.body = "error_script"
    /\ gp.content.t = "obj"
    /\ DictHas(gp.content, S_error)
    /\ DictGet(gp.content, S_title) = JStr(S_error_title)
    /\ DictGet(gp.content, S_duration_estimate) = JStr(S_error_duration)
    /\ ExchangesOf(DictGet(gp.content, S_conversation),
                   << <<"0", "0", ":", "0", "0">>, <<"0", "0", ":", "2", "0">>,
                      <<"0", "0", ":", "4", "0">>, <<"0", "1", ":", "0", "5">> >>)
    /\ TextOf(gp.content, 1) = S_error_text_1
    /\ TextOf(gp.content, 2) = S_error_text_2
    /\ TextOf(gp.content, 3) = S_error_text_3 \o (IF gp.insight = <<>>
                                                  THEN S_error_insight_default ELSE gp.insight)
    /\ TextOf(gp.content, 4) = S_error_text_4 \o (IF gp.recommendation = <<>>
                                                  THEN S_error_recommendation_default
                                                  ELSE gp.recommendation)

\* the literal eight-exchange script of the 200 answer, without an error
\* field, the request's insight and recommendation cut at 150 characters
EightExchangeScript ==
    /\ gp.status = 200
    /\ gp.body = "script"
    /\ gp.content.t = "obj"
    /\ ~DictHas(gp.content, S_error)
    /\ DictGet(gp.content, S_title) =
          JStr(IF gp.insight = <<>> THEN S_ai_analysis_discussion
               ELSE S_discussion
                    \o SubSeq(gp.insight, 1, IF Len(gp.insight) < 50 THEN Len(gp.insight) ELSE 50)
                    \o <<".", ".", ".">>)
    /\ DictGet(gp.content, S_duration_estimate) = JStr(S_decode_duration)
    /\ ExchangesOf(DictGet(gp.content, S_conversation),
                   << <<"0", "0", ":", "0", "0">>, <<"0", "0", ":", "2", "5">>,
                      <<"0", "0", ":", "4", "5">>, <<"0", "1", ":", "1", "0">>,
                      <<"0", "1", ":", "4", "0">>, <<"0", "2", ":", "0", "5">>,
                      <<"0", "2", ":", "3", "0">>, <<"0", "2", ":", "5", "5">> >>)
    /\ TextOf(gp.content, 1) =
          S_decode_text_1
          \o SubSeq(gp.insight, 1, IF Len(gp.insight) < 150 THEN Len(gp.insight) ELSE 150)
    /\ TextOf(gp.content, 4) =
          S_decode_text_4
          \o SubSeq(gp.recommendation, 1,
                    IF Len(gp.recommendation) < 150 THEN Len(gp.recommendation) ELSE 150)
    /\ \A n \in {2, 3, 5, 6, 7, 8} :
          TextOf(gp.content, n) =
              <<S_decode_text_1, S_decode_text_2, S_decode_text_3, S_decode_text_4,
                S_decode_text_5, S_decode_text_6, S_decode_text_7, S_decode_text_8>>[n]

\* C11 as stated: whenever the recovery gives no object with the keys title,
\* duration_estimate and conversation (unparseable text or a missing key),
\* generate_podcast answers 500 with the literal four-exchange script and an
\* error field.
NoScriptAnswersFallback500 == NoScriptRecovered => FourExchangeFallback

\* C11 as amended: a text that parses but is no object or lacks one of the
\* three keys is answered 500 with the literal four-exchange script and an
\* error field; a text that does not parse is answered 200 with the literal
\* eight-exchange script and no error field.
NoScriptAnswersByCause ==
    NoScriptRecovered =>
        IF JsonLoads(gp.response_text).ok THEN FourExchangeFallback ELSE EightExchangeScript

\* C11 witness: a text that is no JSON has been answered 200 with the
\* eight-exchange script, for a request whose insight is longer than 150
\* characters.
UnparseableAnswered ==
    /\ NoScriptRecovered
    /\ ~JsonLoads(gp.response_text).ok
    /\ gp.raw = <<"h", "e", "l", "l", "o">>
    /\ Len(gp.insight) > 150
    /\ gp.status = 200
    /\ Len(DictGet(gp.content, S_conversation).a) = 8


\* -- C12 -----------------------------------------------------------------

\* the states of the recovery as positions of get_insights: Unparsed is the
\* trimmed text before the fence is looked at, FencedCandidate the text after
\* the fence stripping, BraceSliced the text after the slicing,
\* HeuristicScanned the line scan, Finalized the mapping handed to the
\* finalization and the record it answers with
RecoveryEdges ==
    { <<"fence", "slice">>, <<"slice", "parse">>, <<"parse", "finalize">>,
      <<"parse", "heuristic">>, <<"heuristic", "finalize">>, <<"finalize", "done">> }

\* the stages are passed in the listed order, and the line scan always hands
\* a mapping to the finalization
RecoveryStageOrder ==
    [][ /\ gi.pc \in {"fence", "slice", "parse", "heuristic", "finalize"} =>
              <<gi.pc, gi'.pc>> \in RecoveryEdges
        /\ gi.pc = "heuristic" => gi'.pc = "finalize" /\ gi'.result.t = "obj" ]_vars

\* C12: every run of the recovery passes the stages in the listed order, goes
\* on to the line scan unless a stage gave a mapping, always leaves the line
\* scan for the finalization, and ends finalized with a complete mapping (both
\* fields non-empty strings, status 200) without raising.
RecoveryStateMachine ==
    [][ /\ gi.pc \in {"fence", "slice", "parse", "heuristic", "finalize"} =>
              <<gi.pc, gi'.pc>> \in RecoveryEdges
        /\ gi.pc = "parse" =>
              (gi'.pc = "finalize" <=>
                  (JsonLoads(gi.response_text).ok /\ JsonLoads(gi.response_text).v.t = "obj"))
        /\ gi.pc = "heuristic" => gi'.pc = "finalize" /\ gi'.result.t = "obj"
        /\ gi.pc = "finalize" =>
              /\ gi'.status = 200
              /\ gi'.body = "analysis"
              /\ gi'.insight /= <<>>
              /\ gi'.recommendation /= <<>> ]_vars

\* a mapping whose two fields are strings or missing is finalized without
\* raising
StringFieldsFinalized ==
    [][ (gi.pc = "finalize" /\ gi.result.t = "obj"
         /\ GetOrEmpty(gi.result, S_insight).t = "str"
         /\ GetOrEmpty(gi.result, S_recommendation).t = "str") =>
            (gi'.status = 200 /\ gi'.insight /= <<>> /\ gi'.recommendation /= <<>>) ]_vars

\* -- C13 -----------------------------------------------------------------

\* in this step upload p writes the last chunk of its stream
WritesLastChunk(p) ==
    /\ up[p].pc = "read"
    /\ up[p].left > 0
    /\ up'[p].pc = "read"
    /\ up'[p].left = 0

\* upload q, of the same sanitized filename, has written its whole stream
\* before (it waits for the end of its stream, or has been answered without
\* the size error)
HasWrittenAll(q, safe_filename) ==
    /\ up[q].safe_filename = safe_filename
    /\ \/ up[q].pc = "read" /\ up[q].left = 0
       \/ up[q].pc = "done" /\ up[q].status \in {200, 500}

\* C13: when two uploads of the same sanitized filename run at once and both
\* write their whole streams, the file stored at the path after the write
\* that completes last is exactly the stream of the upload that wrote it.
LastWriterWins ==
    [][ \A p \in Uploaders : \A q \in Uploaders \ {p} :
            (WritesLastChunk(p) /\ HasWrittenAll(q, up[p].safe_filename)) =>
                /\ up[p].safe_filename \in DOMAIN dir'
                /\ inodes'[dir'[up[p].safe_filename]] = <<[w |-> p, n |-> up[p].total]>> ]_vars

\* the write that completes last leaves its own chunk at its offset
LastChunkStored ==
    [][ \A p \in Uploaders :
            WritesLastChunk(p) =>
                LET chunk == up'[p].off - up[p].off
                IN  TakeBytes(DropBytes(inodes'[up[p].fd], up[p].off), chunk)
                        = <<[w |-> p, n |-> chunk]>> ]_vars

====
